---- MODULE Spec2Model ----
(***************************************************************************)
(* A model of the content crawler: the pure helpers of utils.ts           *)
(* (detectPlatform, parseCookies), the crawl orchestration of              *)
(* BaseCrawler.crawl around one PlaywrightCrawler session, and the HTTP    *)
(* handlers of server.ts.                                                  *)
(*                                                                         *)
(* Strings are sequences of tokens.  A token is either a delimiter the     *)
(* code looks at (";", "=", a whitespace character, ".") or an atom: a     *)
(* non-empty piece of text holding none of them.                           *)
(***************************************************************************)
EXTENDS Integers, Sequences, FiniteSets, TLC

VARIABLES
    \* ---- a call of one of the pure helpers --------------------------------
    fnPc,          \* "idle" | "call" | "returned" | "added"
    fnArgs,        \* the arguments of the call
    fnRet,         \* what the call returned (or Throw)
    browserCookies \* what setCookies handed to context.addCookies

fnVars == <<fnPc, fnArgs, fnRet, browserCookies>>

VARIABLES
    \* ---- one url of a batch: the worker of server.ts and its crawl() ------
    url,           \* the url handed to the worker
    options,       \* {timeout, cookies}
    wpc,           \* the worker: "idle" | "start" | "crawl" | "awaiting" | "done"
    workerResult,  \* what the worker returned to Promise.all
    platform,      \* self.platform of the crawler getCrawler returned
    parsedCookies, \* parseCookies(cookies, getDomain())
    promiseState,  \* the promise crawl() returned: "none" | "pending" | "resolved" | "rejected"
    promiseValue,  \* its value (a CrawlResult) or the reason of its rejection
    resolved,      \* the flag `resolved` of crawl()
    resolveCalls,  \* history: the paths that called resolve(), in order
    firstResult,   \* history: the result of the first call of resolve()
    \* ---- the PlaywrightCrawler session ----------------------------------
    runPc,         \* "none" | "launch" | "hook" | "nav" | "handler" | "failed" | "finished"
    hookStep,      \* the next statement of the pre-navigation hook
    hookLog,       \* history: what the current attempt has done so far
    attempt,       \* 1 + the request's retryCount
    handlers,      \* attempt -> the run of requestHandler of that attempt
    lastError,     \* the error of the attempt that failed last
    runPromise,    \* crawler.run([url]): "none" | "pending" | "fulfilled" | "rejected"
    finallyDone,   \* the .finally callback has run
    unhandledRejection, \* a rejected promise nobody handles exists
    now,           \* the clock, in seconds since crawl() was called
    navStart,      \* when the navigation of the current attempt began
    navTimeouts    \* history: the attempts that ended by a navigation timeout

crawlVars == <<url, options, wpc, workerResult, platform, parsedCookies,
               promiseState, promiseValue, resolved, resolveCalls, firstResult,
               runPc,
               hookStep, hookLog, attempt, handlers, lastError, runPromise,
               finallyDone, unhandledRejection, now, navStart, navTimeouts>>

VARIABLES
    \* ---- one HTTP request to server.ts ----------------------------------
    route,         \* "none" | "/crawl" | "/crawl/batch"
    body,          \* request.body
    spc,           \* "idle" | "received" | "awaiting" | "replied"
    reply,         \* the response
    crawlCalls,    \* history: how often the handler called crawler.crawl
    returned,      \* history: index -> what the worker of that url returned, and
                   \*          whether its try block raised
    values         \* the array Promise.all fills: index -> result

serverVars == <<route, body, spc, reply, crawlCalls, returned, values>>

vars == <<fnVars, crawlVars, serverVars>>

\* ---------------------------------------------------------------- bounds
MaxCookieLen == 5      \* tokens in a cookie string
MaxCookieList == 2     \* entries in a structured cookie list
MaxHostLen == 3        \* tokens in a host name
MaxTextLen == 4        \* pieces in a text given to cleanText
MaxPageImages == 21    \* <img> elements on a page
MaxPageVideos == 11    \* videos on a page

\* ------------------------------------------------------------- JS values
Undefined == "undefined"      \* an absent optional field / argument
Throw == "throw"              \* the call ended by an exception
NoValue == "none"             \* no string there yet
Nothing == [nothing |-> TRUE] \* no object there yet

WhiteSpace == {" ", "\n"}

\* all sequences over S of length at most n
SeqUpTo(S, n) == UNION {[1..k -> S] : k \in 0..n}

\* ------------------------------------------------------ String.prototype
RECURSIVE TrimStart(_)
TrimStart(s) ==
    IF s # << >> /\ Head(s) \in WhiteSpace THEN TrimStart(Tail(s)) ELSE s

RECURSIVE TrimEnd(_)
TrimEnd(s) ==
    IF s # << >> /\ s[Len(s)] \in WhiteSpace
    THEN TrimEnd(SubSeq(s, 1, Len(s) - 1))
    ELSE s

\* s.trim()
Trim(s) == TrimEnd(TrimStart(s))

\* s.split(d): the pieces between the occurrences of d; "" gives [""]
RECURSIVE Split(_, _)
Split(s, d) ==
    IF \E i \in 1..Len(s) : s[i] = d
    THEN LET i == CHOOSE k \in 1..Len(s) :
                      s[k] = d /\ \A j \in 1..(k - 1) : s[j] # d
         IN  <<SubSeq(s, 1, i - 1)>> \o Split(SubSeq(s, i + 1, Len(s)), d)
    ELSE <<s>>

\* parts.join(d)
RECURSIVE Join(_, _)
Join(parts, d) ==
    IF parts = << >> THEN << >>
    ELSE IF Len(parts) = 1 THEN parts[1]
    ELSE parts[1] \o <<d>> \o Join(Tail(parts), d)

\* haystack.includes(needle)
Includes(haystack, needle) ==
    \E i \in 0..(Len(haystack) - Len(needle)) :
        SubSeq(haystack, i + 1, i + Len(needle)) = needle

\* ============================================================ utils.ts
\* ------------------------------------------------------- detectPlatform
Platforms == {"zhihu", "xiaohongshu", "twitter", "wechat", "unknown"}

\* String.prototype.toLowerCase on one token
LowerToken(t) ==
    CASE t = "ZHIHU" -> "zhihu"
      [] t = "X"     -> "x"
      [] OTHER       -> t

toLowerCase(s) == [i \in 1..Len(s) |-> LowerToken(s[i])]

\* new URL(url) throws on a string that is no URL
newURLThrows(u) == ~u.valid

\* new URL(url).hostname: the URL parser lower-cases the host
hostname(u) == toLowerCase(u.host)

detectPlatform(u) ==
    IF newURLThrows(u) THEN Throw
    ELSE LET host == toLowerCase(hostname(u)) IN
         IF Includes(host, <<"zhihu", ".com">>) THEN "zhihu"
         ELSE IF Includes(host, <<"xiaohongshu", ".com">>)
                 \/ Includes(host, <<"xhslink", ".com">>) THEN "xiaohongshu"
         ELSE IF Includes(host, <<"twitter", ".com">>)
                 \/ Includes(host, <<"x", ".com">>) THEN "twitter"
         ELSE IF Includes(host, <<"weixin", ".qq", ".com">>)
                 \/ Includes(host, <<"mp", ".", "weixin", ".qq", ".com">>)
              THEN "wechat"
         ELSE "unknown"

\* --------------------------------------------------------- parseCookies
\* a cookie argument: absent, a string, a list of CookieParam, or (the body
\* of a request is not validated) a value of another type
AbsentCookies == [kind |-> "absent", str |-> << >>, list |-> << >>]
StringCookies(s) == [kind |-> "string", str |-> s, list |-> << >>]
ListCookies(l) == [kind |-> "list", str |-> << >>, list |-> l]
OtherCookies == [kind |-> "other", str |-> << >>, list |-> << >>]

\* c.domain || domain
DomainOr(d, fallback) == IF d = Undefined \/ d = "" THEN fallback ELSE d

\* valueParts.join('=').trim()
CookieValueFirstPartOnly(valueParts) ==
    IF valueParts = << >> THEN << >> ELSE Trim(valueParts[1])

CookieValue(valueParts) == Trim(Join(valueParts, "="))

\* one pair of the string form
ParsePair(pair, domain) ==
    LET parts == Split(Trim(pair), "=")
        name == parts[1]
        valueParts == Tail(parts)
    IN  [name |-> Trim(name), value |-> CookieValue(valueParts),
         domain |-> domain, path |-> Undefined]

\* the structured form is passed through, the domain filled in
FillDomain(c, domain) ==
    [name |-> c.name, value |-> c.value,
     domain |-> DomainOr(c.domain, domain), path |-> c.path]

parseCookies(cookies, domain) ==
    IF cookies.kind = "absent" \/ (cookies.kind = "string" /\ cookies.str = << >>)
    THEN << >>
    ELSE IF cookies.kind = "list"
    THEN [i \in 1..Len(cookies.list) |-> FillDomain(cookies.list[i], domain)]
    ELSE IF cookies.kind = "string"
    THEN LET pairs == Split(cookies.str, ";")
             parsed == [i \in 1..Len(pairs) |-> ParsePair(pairs[i], domain)]
         IN  SelectSeq(parsed, LAMBDA c : c.name # << >> /\ c.value # << >>)
    ELSE << >>      \* never returned: see parseCookiesThrows

\* a cookies argument that is neither a string nor a list: cookies.split is
\* not a function
parseCookiesThrows(cookies) == cookies.kind = "other"

\* ------------------------------------------------------------ cleanText
\* A text is a sequence of pieces: a whitespace character,
\* [ch |-> " " or "\n", n |-> 1], or a run of n characters that are not
\* whitespace, [ch |-> "a", n |-> n].
Space == [ch |-> " ", n |-> 1]
LineBreak == [ch |-> "\n", n |-> 1]
Chars(c, k) == [ch |-> c, n |-> k]

IsWhiteSpace(t) == t.ch \in WhiteSpace

\* text.length
RECURSIVE Length(_)
Length(text) == IF text = << >> THEN 0 ELSE Head(text).n + Length(Tail(text))

\* the text without the whitespace it begins with
RECURSIVE SkipWhiteSpace(_)
SkipWhiteSpace(text) ==
    IF text # << >> /\ IsWhiteSpace(Head(text))
    THEN SkipWhiteSpace(Tail(text))
    ELSE text

\* .replace(/\s+/g, ' '): every run of whitespace becomes one space
KeepWhiteSpaceRuns(text) == text

RECURSIVE ReplaceWhiteSpaceRuns(_)
ReplaceWhiteSpaceRuns(text) ==
    IF text = << >> THEN << >>
    ELSE IF IsWhiteSpace(Head(text))
    THEN <<Space>> \o ReplaceWhiteSpaceRuns(SkipWhiteSpace(text))
    ELSE <<Head(text)>> \o ReplaceWhiteSpaceRuns(Tail(text))

\* .replace(/\n\s*\n/g, '\n'): a line break, whitespace and a line break
\* (the longest such stretch) become one line break
RECURSIVE ReplaceBlankLines(_)
ReplaceBlankLines(text) ==
    IF text = << >> THEN << >>
    ELSE LET rest == Tail(text)
             stretch == Len(rest) - Len(SkipWhiteSpace(rest))
             breaks == {i \in 1..stretch : rest[i] = LineBreak}
         IN  IF Head(text) = LineBreak /\ breaks # {}
             THEN LET last == CHOOSE i \in breaks : \A j \in breaks : j <= i
                  IN  <<LineBreak>>
                      \o ReplaceBlankLines(SubSeq(rest, last + 1, Len(rest)))
             ELSE <<Head(text)>> \o ReplaceBlankLines(rest)

\* .trim()
RECURSIVE TrimTextEnd(_)
TrimTextEnd(text) ==
    IF text # << >> /\ IsWhiteSpace(text[Len(text)])
    THEN TrimTextEnd(SubSeq(text, 1, Len(text) - 1))
    ELSE text

TrimText(text) == TrimTextEnd(SkipWhiteSpace(text))

cleanText(text) == TrimText(ReplaceBlankLines(ReplaceWhiteSpaceRuns(text)))

\* ==================================================== crawlers/index.ts
\* getCrawler(platform).platform: every platform has its crawler, anything
\* else gets the GenericCrawler, whose platform is 'unknown'
getCrawler(p) ==
    CASE p = "zhihu"       -> "zhihu"
      [] p = "xiaohongshu" -> "xiaohongshu"
      [] p = "twitter"     -> "twitter"
      [] p = "wechat"      -> "wechat"
      [] OTHER             -> "unknown"

\* getDomain() of the crawler of a platform
getDomain(p) ==
    CASE p = "zhihu"       -> ".zhihu.com"
      [] p = "xiaohongshu" -> ".xiaohongshu.com"
      [] p = "twitter"     -> ".x.com"
      [] p = "wechat"      -> ".qq.com"
      [] OTHER             -> ""

\* ======================================================= the strategies
\* What a strategy finds on a page, in document order: the src of the <img>
\* elements its selector matches ("" for an element without one) and the
\* urls of the videos (elements first, then the page's data).  A url is a
\* positive number; 0 is the empty string.
MaxImages == 20               \* .slice(0, 20)
MaxVideos == 10               \* .slice(0, 10)

\* list.slice(0, k)
Slice(list, k) == SubSeq(list, 1, IF Len(list) < k THEN Len(list) ELSE k)

\* list.filter(Boolean)
FilterBoolean(list) == SelectSeq(list, LAMBDA src : src # 0)

\* [...new Set(list)], and push-unless-includes: the first of each url, in order
RECURSIVE Unique(_)
Unique(list) ==
    IF list = << >> THEN << >>
    ELSE LET front == Unique(SubSeq(list, 1, Len(list) - 1))
             x == list[Len(list)]
         IN  IF \E i \in 1..Len(front) : front[i] = x
             THEN front
             ELSE Append(front, x)

\* the branch ZhihuCrawler.extract takes for a url
ZhihuBranches == {"article", "answer", "generic"}

\* the images a strategy returns
extractImages(self, branch, imgs) ==
    CASE self = "zhihu" ->
            IF branch = "generic" THEN << >> ELSE FilterBoolean(imgs)
      [] self = "xiaohongshu" -> Slice(Unique(FilterBoolean(imgs)), MaxImages)
      [] self = "twitter" -> FilterBoolean(imgs)
      [] self = "wechat" -> Unique(FilterBoolean(imgs))
      [] OTHER -> Slice(FilterBoolean(imgs), MaxImages)

\* the videos a strategy returns: every strategy collects the urls without
\* repetition and keeps the first ten
extractVideos(self, vids) == Slice(Unique(FilterBoolean(vids)), MaxVideos)

\* ------------------------------------------------ GenericCrawler.extract
contentSelectors ==
    <<"article", "main", ".content", ".post-content", ".article-content",
      "#content", ".entry-content">>

MinContentLength == 100       \* if (content.length > 100) break
MaxContentLength == 10000     \* .slice(0, 10000)

\* text.slice(0, k)
RECURSIVE SliceText(_, _)
SliceText(text, k) ==
    IF text = << >> \/ k <= 0 THEN << >>
    ELSE IF Head(text).n >= k THEN <<Chars(Head(text).ch, k)>>
    ELSE <<Head(text)>> \o SliceText(Tail(text), k - Head(text).n)

\* The loop over contentSelectors from the i-th on, `content` being what the
\* selectors before it left.  containers[i] is what page.$eval finds for the
\* i-th selector: << >> when the page has no such element (the call throws),
\* else <<the text of the element>>
RECURSIVE SelectorLoop(_, _, _)
SelectorLoop(containers, i, content) ==
    IF i > Len(contentSelectors) THEN content
    ELSE IF containers[i] = << >>
    THEN SelectorLoop(containers, i + 1, content)          \* catch: continue
    ELSE IF Length(containers[i][1]) > MinContentLength
    THEN containers[i][1]                                  \* break
    ELSE SelectorLoop(containers, i + 1, containers[i][1])

\* if (!content) content = await page.$eval('body', ...).catch(() => '')
BodyFallback(content, pageBody) ==
    IF content # << >> THEN content
    ELSE IF pageBody = << >> THEN << >>
    ELSE pageBody[1]

\* the content GenericCrawler.extract returns
extractContent(containers, pageBody) ==
    SliceText(cleanText(BodyFallback(SelectorLoop(containers, 1, << >>),
                                     pageBody)),
              MaxContentLength)

\* ====================================================== BaseCrawler.crawl
\* ---------------------------------------------------- program constants
DefaultTimeout == 30000       \* const { timeout = 30000 } = options
maxRequestRetries == 1
SettleSecs == 2               \* page.waitForTimeout(2000)

\* ---------------------------------------------------------------- bounds
MaxClock == 6                 \* the clock stops here

Attempts == 1..(maxRequestRetries + 1)

\* options.timeout with its default; an option is << >> when absent and <<v>>
\* when given
TimeoutOf(opts) == IF opts.timeout = << >> THEN DefaultTimeout ELSE opts.timeout[1]

\* requestHandlerTimeoutSecs: timeout / 1000
requestHandlerTimeoutSecs(timeout) == timeout \div 1000

\* navigationTimeoutSecs: timeout / 1000
navigationTimeoutSecsPlusOne(timeout) == (timeout \div 1000) + 1

navigationTimeoutSecs(timeout) == timeout \div 1000

\* ------------------------------------------------------------- errors
\* a thrown value: an Error with its message, or something that is no Error
ErrorOf(msg) == [isError |-> TRUE, message |-> msg]
NonError == [isError |-> FALSE, message |-> Undefined]

NavigationError == ErrorOf("net::ERR_FAILED")
NavigationTimeoutError == ErrorOf("Navigation timed out")
HandlerTimeoutError == ErrorOf("requestHandler timed out")
HookError == ErrorOf("browserContext.addCookies failed")
PageError == ErrorOf("Target closed")
\* what a strategy may throw: an Error, or any other value
StrategyErrors == {ErrorOf("page.title: Target closed"), NonError}
InvalidUrlError == ErrorOf("Invalid URL")
CookiesTypeError == ErrorOf("cookies.split is not a function")
ConstructorError == ErrorOf("Expected property to be valid")
BrowserLaunchError == ErrorOf("Failed to launch browser")

\* error instanceof Error ? error.message : 'Unknown error'
MessageOfUnguarded(error) == error.message

MessageOf(error) == IF error.isError THEN error.message ELSE "Unknown error"

\* -------------------------------------------------------- CrawlResults
\* what a strategy's extract() may return; a list that is absent and a list
\* that is empty are both << >> (extracted.images || [] makes them one)
FullExtract ==
    [title |-> "T", author |-> "A", content |-> "C", images |-> <<"i1">>,
     videos |-> <<"v1">>, publishedAt |-> "P"]
EmptyExtract ==
    [title |-> Undefined, author |-> Undefined, content |-> Undefined,
     images |-> << >>, videos |-> << >>, publishedAt |-> Undefined]
Extracts == {FullExtract, EmptyExtract}

\* x || fallback
Or(x, fallback) == IF x = Undefined \/ x = "" THEN fallback ELSE x

\* the result of the success path
SuccessResult(self, requestUrl, extracted, time) ==
    [success |-> TRUE, platform |-> self, url |-> requestUrl,
     title |-> Or(extracted.title, ""), author |-> extracted.author,
     content |-> Or(extracted.content, ""),
     images |-> extracted.images,
     videos |-> extracted.videos,
     publishedAt |-> extracted.publishedAt, crawledAt |-> time,
     error |-> Undefined]

\* the result of the three failure paths and of the batch endpoint's catch
FailureResult(self, requestUrl, message, time) ==
    [success |-> FALSE, platform |-> self, url |-> requestUrl,
     title |-> "", author |-> Undefined, content |-> "",
     images |-> << >>, videos |-> << >>,
     publishedAt |-> Undefined, crawledAt |-> time,
     error |-> message]

UnknownErrorMessage == "Unknown error"

SentinelMessage == "Crawler finished without result"

\* --------------------------------------------------- the promise of crawl
\* resolve(result): a promise takes the first resolution; later ones do nothing
LastResolutionWins(state, value, result) == result

PromiseValueAfterResolve(state, value, result) ==
    IF state = "pending" THEN result ELSE value

PromiseStateAfterResolve(state) ==
    IF state = "pending" THEN "resolved" ELSE state

\* resolved = true; resolve(result), by one of the four paths
Resolve(by, result) ==
    /\ resolved' = TRUE
    /\ promiseValue' = PromiseValueAfterResolve(promiseState, promiseValue, result)
    /\ promiseState' = PromiseStateAfterResolve(promiseState)
    /\ resolveCalls' = Append(resolveCalls, by)
    /\ firstResult' = IF resolveCalls = << >> THEN result ELSE firstResult

NoResolve ==
    UNCHANGED <<resolved, promiseValue, promiseState, resolveCalls, firstResult>>

\* --------------------------------------------------------- setCookies
\* the cookies setCookies hands to context.addCookies
setCookies(self, cookies) ==
    [i \in 1..Len(cookies) |->
        [name |-> cookies[i].name, value |-> cookies[i].value,
         domain |-> DomainOr(cookies[i].domain, getDomain(self)),
         path |-> Or(cookies[i].path, "/")]]

\* ------------------------------------------------ the run of one handler
\* (log: history, what its attempt has done so far; delivered: history, its
\* call of resolve() settled the promise of crawl())
IdleHandler ==
    [pc |-> "idle", start |-> 0, settleStart |-> 0, timedOut |-> FALSE,
     log |-> << >>, delivered |-> FALSE]

\* a handler that has begun and not returned
Running(h) == h.pc \in {"waitLoad", "settle", "extract"}

\* ------------------------------------------------------------ the inputs
ZhihuUrl == [valid |-> TRUE, host |-> <<"zhihu", ".com">>]
NotAUrl == [valid |-> FALSE, host |-> <<"fli">>]
UrlSamples == {ZhihuUrl, NotAUrl}

CookieSamples ==
    {AbsentCookies,
     ListCookies(<<[name |-> << >>, value |-> <<"b">>,
                    domain |-> Undefined, path |-> Undefined]>>),
     OtherCookies}

\* no timeout given (30 s, which the clock never reaches), one shorter than
\* the settle wait and one longer
Timeouts == {<< >>, <<1000>>, <<3000>>}

\* nothing is calling a pure helper
FnIdle ==
    /\ fnPc = "idle"
    /\ fnArgs = Nothing
    /\ fnRet = NoValue
    /\ browserCookies = << >>

\* no worker, no crawl, no session
CrawlIdle ==
    /\ url = Nothing
    /\ options = Nothing
    /\ wpc = "idle"
    /\ workerResult = Nothing
    /\ platform = NoValue
    /\ parsedCookies = << >>
    /\ promiseState = "none"
    /\ promiseValue = Nothing
    /\ resolved = FALSE
    /\ resolveCalls = << >>
    /\ firstResult = Nothing
    /\ runPc = "none"
    /\ hookStep = "cookies"
    /\ hookLog = << >>
    /\ attempt = 1
    /\ handlers = [a \in Attempts |-> IdleHandler]
    /\ lastError = Nothing
    /\ runPromise = "none"
    /\ finallyDone = FALSE
    /\ unhandledRejection = FALSE
    /\ now = 0
    /\ navStart = 0
    /\ navTimeouts = 0

\* no request
ServerIdle ==
    /\ route = "none"
    /\ body = Nothing
    /\ spc = "idle"
    /\ reply = Nothing
    /\ crawlCalls = 0
    /\ returned = << >>
    /\ values = << >>

\* the worker of /crawl/batch is about to run for one url
Init ==
    /\ FnIdle
    /\ ServerIdle
    /\ url \in UrlSamples
    /\ options \in [timeout : Timeouts, cookies : CookieSamples]
    /\ wpc = "start"
    /\ workerResult = Nothing
    /\ platform = NoValue
    /\ parsedCookies = << >>
    /\ promiseState = "none"
    /\ promiseValue = Nothing
    /\ resolved = FALSE
    /\ resolveCalls = << >>
    /\ firstResult = Nothing
    /\ runPc = "none"
    /\ hookStep = "cookies"
    /\ hookLog = << >>
    /\ attempt = 1
    /\ handlers = [a \in Attempts |-> IdleHandler]
    /\ lastError = Nothing
    /\ runPromise = "none"
    /\ finallyDone = FALSE
    /\ unhandledRejection = FALSE
    /\ now = 0
    /\ navStart = 0
    /\ navTimeouts = 0

sessionVars == <<runPc, hookStep, hookLog, attempt, lastError, runPromise,
                 navStart, navTimeouts>>
promiseVars == <<resolved, promiseValue, promiseState, resolveCalls, firstResult>>
callVars == <<url, options, platform, parsedCookies>>

\* ------------------------------------------------- server.ts: the worker
\* urls.map(async (url) => { try { detectPlatform; getCrawler; ...
BatchWorker ==
    /\ wpc = "start"
    /\ IF detectPlatform(url) = Throw
       THEN /\ workerResult' =
                   FailureResult("unknown", url, MessageOf(InvalidUrlError), now)
            /\ wpc' = "done"
            /\ UNCHANGED platform
       ELSE /\ platform' = getCrawler(detectPlatform(url))
            /\ wpc' = "crawl"
            /\ UNCHANGED workerResult
    /\ UNCHANGED <<fnVars, serverVars, url, options, parsedCookies, promiseVars, sessionVars,
                   handlers, finallyDone, unhandledRejection, now>>

\* ------------------------------------- crawl(): its synchronous beginning
\* parseCookies, then the executor of the promise: the Configuration, the
\* PlaywrightCrawler, crawler.run([url]).finally(...)
crawl ==
    /\ wpc = "crawl"
    /\ wpc' = "awaiting"
    /\ LET parsed == parseCookies(options.cookies, getDomain(platform)) IN
       IF parseCookiesThrows(options.cookies)
       THEN \* an async function that throws returns a rejected promise
            /\ promiseState' = "rejected"
            /\ promiseValue' = CookiesTypeError
            /\ UNCHANGED <<parsedCookies, runPc, runPromise>>
       ELSE /\ parsedCookies' = parsed
            /\ \/ \* new PlaywrightCrawler(...) throws inside the executor
                  /\ promiseState' = "rejected"
                  /\ promiseValue' = ConstructorError
                  /\ UNCHANGED <<runPc, runPromise>>
               \/ /\ promiseState' = "pending"
                  /\ runPc' = "launch"
                  /\ runPromise' = "pending"
                  /\ UNCHANGED promiseValue
    /\ UNCHANGED <<fnVars, serverVars, url, options, platform, workerResult, resolved,
                   resolveCalls, firstResult, hookStep, hookLog, attempt, handlers, lastError,
                   finallyDone, unhandledRejection, now, navStart, navTimeouts>>

\* the promise of crawl() has settled and the worker awaiting it has not run
\* yet: its continuation is a microtask, which runs before any other event
AwaitDue == wpc = "awaiting" /\ promiseState \in {"resolved", "rejected"}

\* ------------------------------------------- the session: one attempt fails
\* the request is retried while retryCount < maxRequestRetries; after that
\* failedRequestHandler gets the error
AttemptFailed(error) ==
    IF attempt <= maxRequestRetries
    THEN /\ attempt' = attempt + 1
         /\ runPc' = "launch"
         /\ UNCHANGED lastError
    ELSE /\ runPc' = "failed"
         /\ lastError' = error
         /\ UNCHANGED attempt

\* a page for the attempt; a browser that cannot be launched is a critical
\* error, which rejects crawler.run
Launch ==
    /\ ~AwaitDue
    /\ runPc = "launch"
    /\ \/ /\ runPc' = "hook"
          /\ hookStep' = "cookies"
          /\ hookLog' = << >>
          /\ UNCHANGED <<runPromise, lastError>>
       \/ /\ runPc' = "finished"
          /\ runPromise' = "rejected"
          /\ lastError' = BrowserLaunchError
          /\ UNCHANGED <<hookStep, hookLog>>
    /\ UNCHANGED <<fnVars, serverVars, callVars, wpc, workerResult, promiseVars, attempt,
                   handlers, finallyDone, unhandledRejection, now, navStart,
                   navTimeouts>>

\* the statement of the hook after `step`
NextHookStepHeadersFirst(step) ==
    CASE step = "cookies"  -> "headers"
      [] step = "headers"  -> "viewport"
      [] step = "viewport" -> "antiDetection"
      [] OTHER             -> "done"

NextHookStep(step) ==
    CASE step = "cookies"  -> "viewport"
      [] step = "viewport" -> "headers"
      [] step = "headers"  -> "antiDetection"
      [] OTHER             -> "done"

\* preNavigationHooks[0], one statement at a time; the navigation starts when
\* it has returned
preNavigationHook ==
    /\ ~AwaitDue
    /\ runPc = "hook"
    /\ \/ \* the statement completes
          /\ IF hookStep = "cookies"
             THEN IF Len(parsedCookies) > 0
                  THEN /\ browserCookies' = setCookies(platform, parsedCookies)
                       /\ hookLog' = Append(hookLog, "cookies")
                  ELSE UNCHANGED <<browserCookies, hookLog>>
             ELSE /\ hookLog' = Append(hookLog, hookStep)
                  /\ UNCHANGED browserCookies
          /\ hookStep' = NextHookStep(hookStep)
          /\ IF NextHookStep(hookStep) = "done"
             THEN runPc' = "nav" /\ navStart' = now
             ELSE UNCHANGED <<runPc, navStart>>
          /\ UNCHANGED <<attempt, lastError>>
       \/ \* the statement throws: the attempt has failed
          /\ AttemptFailed(HookError)
          /\ UNCHANGED <<browserCookies, hookStep, hookLog, navStart>>
    /\ UNCHANGED <<fnPc, fnArgs, fnRet, serverVars, callVars, wpc, workerResult, promiseVars,
                   handlers, runPromise, finallyDone, unhandledRejection, now,
                   navTimeouts>>

\* ---------------------------------------------------------- navigation
\* page.goto under navigationTimeoutSecs: the page loads and requestHandler
\* is called, or the navigation fails, or it times out
Navigate ==
    /\ ~AwaitDue
    /\ runPc = "nav"
    /\ \/ /\ runPc' = "handler"
          /\ handlers' = [handlers EXCEPT ![attempt] =
                 [pc |-> "waitLoad", start |-> now, settleStart |-> 0,
                  timedOut |-> FALSE, log |-> Append(hookLog, "navigate"),
                  delivered |-> FALSE]]
          /\ hookLog' = Append(hookLog, "navigate")
          /\ UNCHANGED <<attempt, lastError, navTimeouts>>
       \/ /\ AttemptFailed(NavigationError)
          /\ UNCHANGED <<handlers, hookLog, navTimeouts>>
       \/ /\ now >= navStart + navigationTimeoutSecs(TimeoutOf(options))
          /\ AttemptFailed(NavigationTimeoutError)
          /\ navTimeouts' = navTimeouts + 1
          /\ UNCHANGED <<handlers, hookLog>>
    /\ UNCHANGED <<fnVars, serverVars, callVars, wpc, workerResult, promiseVars, hookStep,
                   runPromise, finallyDone, unhandledRejection, now, navStart>>

\* ------------------------------------------------------- requestHandler
\* the handler of attempt a has returned: when it is the attempt the session
\* is waiting for, the request is handled and crawler.run fulfils
HandlerReturned(a) ==
    IF a = attempt /\ runPc = "handler"
    THEN runPc' = "finished" /\ runPromise' = "fulfilled"
    ELSE UNCHANGED <<runPc, runPromise>>

\* catch (error) { resolved = true; resolve({success: false, ...}) }
HandlerCatch(a, error) ==
    /\ Resolve("catch", FailureResult(platform, url, MessageOf(error), now))
    /\ handlers' = [handlers EXCEPT
                       ![a].pc = "done",
                       ![a].delivered = (promiseState = "pending"),
                       ![a].log = IF handlers[a].pc = "extract"
                                  THEN Append(handlers[a].log, "extract")
                                  ELSE handlers[a].log]
    /\ HandlerReturned(a)

\* await page.waitForLoadState('domcontentloaded')
HandlerWaitLoad(a) ==
    /\ ~AwaitDue
    /\ handlers[a].pc = "waitLoad"
    /\ \/ /\ handlers' = [handlers EXCEPT
                             ![a].pc = "settle",
                             ![a].settleStart = now,
                             ![a].log = Append(handlers[a].log, "domReady")]
          /\ NoResolve
          /\ UNCHANGED <<runPc, runPromise>>
       \/ HandlerCatch(a, PageError)
    /\ UNCHANGED <<fnVars, serverVars, callVars, wpc, workerResult, hookStep, hookLog,
                   attempt, lastError, finallyDone, unhandledRejection, now,
                   navStart, navTimeouts>>

\* await page.waitForTimeout(2000)
HandlerSettle(a) ==
    /\ ~AwaitDue
    /\ handlers[a].pc = "settle"
    /\ \/ /\ now >= handlers[a].settleStart + SettleSecs
          /\ handlers' = [handlers EXCEPT
                             ![a].pc = "extract",
                             ![a].log = Append(handlers[a].log, "settle")]
          /\ NoResolve
          /\ UNCHANGED <<runPc, runPromise>>
       \/ HandlerCatch(a, PageError)
    /\ UNCHANGED <<fnVars, serverVars, callVars, wpc, workerResult, hookStep, hookLog,
                   attempt, lastError, finallyDone, unhandledRejection, now,
                   navStart, navTimeouts>>

\* const extracted = await self.extract(page, request.url);
\* resolved = true; resolve({success: true, ...})
HandlerExtract(a) ==
    /\ ~AwaitDue
    /\ handlers[a].pc = "extract"
    /\ \/ \E extracted \in Extracts :
             /\ Resolve("success", SuccessResult(platform, url, extracted, now))
             /\ handlers' = [handlers EXCEPT
                                ![a].pc = "done",
                                ![a].delivered = (promiseState = "pending"),
                                ![a].log = Append(handlers[a].log, "extract")]
             /\ HandlerReturned(a)
       \/ \E error \in StrategyErrors : HandlerCatch(a, error)
    /\ UNCHANGED <<fnVars, serverVars, callVars, wpc, workerResult, hookStep, hookLog,
                   attempt, lastError, finallyDone, unhandledRejection, now,
                   navStart, navTimeouts>>

\* requestHandlerTimeoutSecs elapsed: the session gives the attempt up; the
\* handler itself is not cancelled and goes on running
HandlerTimeout ==
    /\ ~AwaitDue
    /\ runPc = "handler"
    /\ Running(handlers[attempt])
    /\ now >= handlers[attempt].start + requestHandlerTimeoutSecs(TimeoutOf(options))
    /\ handlers' = [handlers EXCEPT ![attempt].timedOut = TRUE]
    /\ AttemptFailed(HandlerTimeoutError)
    /\ UNCHANGED <<fnVars, serverVars, callVars, wpc, workerResult, promiseVars, hookStep,
                   hookLog, runPromise, finallyDone, unhandledRejection, now,
                   navStart, navTimeouts>>

\* ------------------------------------------------- failedRequestHandler
failedRequestHandler ==
    /\ ~AwaitDue
    /\ runPc = "failed"
    /\ IF ~resolved
       THEN Resolve("failed", FailureResult(platform, url, lastError.message, now))
       ELSE NoResolve
    /\ runPc' = "finished"
    /\ runPromise' = "fulfilled"
    /\ UNCHANGED <<fnVars, serverVars, callVars, wpc, workerResult, hookStep, hookLog,
                   attempt, handlers, lastError, finallyDone, unhandledRejection,
                   now, navStart, navTimeouts>>

\* --------------------------------------- crawler.run([url]).finally(...)
\* the callback runs when crawler.run has settled; the promise .finally
\* returned settles as crawler.run did, and nothing handles it
runFinally ==
    /\ ~AwaitDue
    /\ runPromise \in {"fulfilled", "rejected"}
    /\ ~finallyDone
    /\ finallyDone' = TRUE
    /\ IF ~resolved
       THEN Resolve("finally", FailureResult(platform, url, SentinelMessage, now))
       ELSE NoResolve
    /\ unhandledRejection' = (runPromise = "rejected")
    /\ UNCHANGED <<fnVars, serverVars, callVars, wpc, workerResult, sessionVars, handlers, now>>

\* ------------------------------- server.ts: return await crawler.crawl(...)
\* the worker gets the CrawlResult, or catches the rejection and synthesizes one
WorkerAwait ==
    /\ AwaitDue
    /\ wpc' = "done"
    /\ workerResult' =
          IF promiseState = "resolved"
          THEN promiseValue
          ELSE FailureResult("unknown", url, MessageOf(promiseValue), now)
    /\ UNCHANGED <<fnVars, serverVars, callVars, promiseVars, sessionVars, handlers,
                   finallyDone, unhandledRejection, now>>

\* -------------------------------------------------------------- the clock
\* a second passes while a navigation or a handler is under way; a timer that
\* is due (a timeout, the end of the settle wait) fires before the next second
Tick ==
    /\ ~AwaitDue
    /\ now < MaxClock
    /\ runPc = "nav" \/ \E a \in Attempts : Running(handlers[a])
    /\ runPc = "nav" =>
          now < navStart + navigationTimeoutSecs(TimeoutOf(options))
    /\ (runPc = "handler" /\ Running(handlers[attempt])) =>
          now < handlers[attempt].start
                   + requestHandlerTimeoutSecs(TimeoutOf(options))
    /\ \A a \in Attempts :
          handlers[a].pc = "settle" => now < handlers[a].settleStart + SettleSecs
    /\ now' = now + 1
    /\ UNCHANGED <<fnVars, serverVars, callVars, wpc, workerResult, promiseVars, sessionVars,
                   handlers, finallyDone, unhandledRejection>>

Next ==
    \/ BatchWorker
    \/ crawl
    \/ Launch
    \/ preNavigationHook
    \/ Navigate
    \/ \E a \in Attempts : HandlerWaitLoad(a)
    \/ \E a \in Attempts : HandlerSettle(a)
    \/ \E a \in Attempts : HandlerExtract(a)
    \/ HandlerTimeout
    \/ failedRequestHandler
    \/ runFinally
    \/ WorkerAwait
    \/ Tick

Spec == Init /\ [][Next]_vars

\* the event loop keeps running: a step that can be taken is taken
FairSpec == Spec /\ WF_vars(Next)

\* ============================================================ server.ts
MaxBatchUrls == 10            \* if (urls.length > 10)

\* the i-th url of a batch: a url of zhihu, or a string that is no url
BatchUrl(i, valid) ==
    [valid |-> valid, host |-> <<"zhihu", ".com">>, id |-> i]

\* the lists of n urls a batch is tried with: all of them urls, or every
\* second one not a url
UrlLists(n) ==
    {[i \in 1..n |-> BatchUrl(i, TRUE)],
     [i \in 1..n |-> BatchUrl(i, i % 2 = 0)]}

\* request.body of POST /crawl/batch: urls absent, urls of another type than
\* a list, or a list
BatchBodies ==
    {[kind |-> "absent", urls |-> << >>], [kind |-> "other", urls |-> << >>]}
    \cup {[kind |-> "list", urls |-> l] :
             l \in UNION {UrlLists(n) : n \in 0..(MaxBatchUrls + 1)}}

\* request.body of POST /crawl: url absent, the empty string, a string that
\* is no url, or a url
CrawlBodies ==
    {[kind |-> "absent", url |-> Nothing],
     [kind |-> "empty", url |-> Nothing],
     [kind |-> "string", url |-> BatchUrl(1, FALSE)],
     [kind |-> "string", url |-> BatchUrl(1, TRUE)]}

\* if (!url)
UrlMissing(b) == b.kind \in {"absent", "empty"}

\* try { new URL(url) } catch
UrlMalformed(b) == newURLThrows(b.url)

\* if (!urls || !Array.isArray(urls) || urls.length === 0)
UrlsMissingEmptyAccepted(b) == b.kind # "list"

UrlsMissing(b) == b.kind # "list" \/ Len(b.urls) = 0

\* if (urls.length > 10)
TooManyUrls(b) == Len(b.urls) > MaxBatchUrls

BadRequest(message) ==
    [status |-> 400, code |-> 400, message |-> message, data |-> << >>]

\* what crawl() does from where the handler stands: it resolves with a
\* CrawlResult of the crawler's platform, or it rejects
CrawlOutcomes(p, u) ==
    {[rejected |-> FALSE, value |-> SuccessResult(p, u, FullExtract, 0)],
     [rejected |-> FALSE, value |-> FailureResult(p, u, SentinelMessage, 0)],
     [rejected |-> TRUE, value |-> FailureResult(p, u, "crawl rejected", 0)]}

\* the crawls of a batch: each succeeds or rejects
BatchCrawlOutcomes(p, u) ==
    {o \in CrawlOutcomes(p, u) : o.rejected \/ o.value.success}

\* Promise.all: the value of the i-th promise goes to the i-th place
FillFirstFree(vals, i, r) ==
    LET k == CHOOSE j \in 1..Len(vals) :
                 vals[j] = Nothing /\ \A m \in 1..(j - 1) : vals[m] # Nothing
    IN  [vals EXCEPT ![k] = r]

PromiseAllFill(vals, i, r) == [vals EXCEPT ![i] = r]

ServerInit ==
    /\ FnIdle
    /\ CrawlIdle
    /\ \/ route = "/crawl" /\ body \in CrawlBodies
       \/ route = "/crawl/batch" /\ body \in BatchBodies
    /\ spc = "received"
    /\ reply = Nothing
    /\ crawlCalls = 0
    /\ returned = << >>
    /\ values = << >>

\* fastify.post('/crawl'): the validation, and the call of crawl()
PostCrawl ==
    /\ route = "/crawl"
    /\ spc = "received"
    /\ IF UrlMissing(body)
       THEN /\ reply' = BadRequest("URL is required")
            /\ spc' = "replied"
            /\ UNCHANGED crawlCalls
       ELSE IF UrlMalformed(body)
       THEN /\ reply' = BadRequest("Invalid URL format")
            /\ spc' = "replied"
            /\ UNCHANGED crawlCalls
       ELSE /\ crawlCalls' = crawlCalls + 1
            /\ spc' = "awaiting"
            /\ UNCHANGED reply
    /\ UNCHANGED <<fnVars, crawlVars, route, body, returned, values>>

\* await crawler.crawl(...) of /crawl has settled
CrawlReply ==
    /\ route = "/crawl"
    /\ spc = "awaiting"
    /\ \E o \in CrawlOutcomes(getCrawler(detectPlatform(body.url)), body.url) :
          reply' =
             IF o.rejected
             THEN [status |-> 500, code |-> 500, message |-> o.value.error,
                   data |-> << >>]
             ELSE IF o.value.success
             THEN [status |-> 200, code |-> 200, message |-> "Success",
                   data |-> <<o.value>>]
             ELSE [status |-> 200, code |-> 500,
                   message |-> Or(o.value.error, "Crawl failed"),
                   data |-> <<o.value>>]
    /\ spc' = "replied"
    /\ UNCHANGED <<fnVars, crawlVars, route, body, crawlCalls, returned, values>>

\* fastify.post('/crawl/batch'): the validation, and urls.map(...), which runs
\* every worker up to its await: crawl() is called for each url
\* detectPlatform accepts
PostBatch ==
    /\ route = "/crawl/batch"
    /\ spc = "received"
    /\ IF UrlsMissing(body)
       THEN /\ reply' = BadRequest("URLs array is required")
            /\ spc' = "replied"
            /\ UNCHANGED <<crawlCalls, returned, values>>
       ELSE IF TooManyUrls(body)
       THEN /\ reply' = BadRequest("Maximum 10 URLs per batch")
            /\ spc' = "replied"
            /\ UNCHANGED <<crawlCalls, returned, values>>
       ELSE /\ crawlCalls' = Cardinality({i \in 1..Len(body.urls) :
                                  detectPlatform(body.urls[i]) # Throw})
            /\ returned' = [i \in 1..Len(body.urls) |-> Nothing]
            /\ values' = [i \in 1..Len(body.urls) |-> Nothing]
            /\ spc' = "awaiting"
            /\ UNCHANGED reply
    /\ UNCHANGED <<fnVars, crawlVars, route, body>>

\* the worker of the i-th url returns: what crawl() resolved with, or the
\* result its catch synthesizes
BatchWorkerReturns(i) ==
    /\ route = "/crawl/batch"
    /\ spc = "awaiting"
    /\ returned[i] = Nothing
    /\ LET u == body.urls[i] IN
       \E r \in IF detectPlatform(u) = Throw
                THEN {[raised |-> TRUE,
                       result |-> FailureResult("unknown", u,
                                                MessageOf(InvalidUrlError), 0)]}
                ELSE {IF o.rejected
                      THEN [raised |-> TRUE,
                            result |-> FailureResult("unknown", u,
                                                     o.value.error, 0)]
                      ELSE [raised |-> FALSE, result |-> o.value] :
                         o \in BatchCrawlOutcomes(getCrawler(detectPlatform(u)), u)} :
          /\ returned' = [returned EXCEPT ![i] = r]
          /\ values' = PromiseAllFill(values, i, r.result)
    /\ UNCHANGED <<fnVars, crawlVars, route, body, spc, reply, crawlCalls>>

\* Promise.all has all its values: the handler returns them
BatchReply ==
    /\ route = "/crawl/batch"
    /\ spc = "awaiting"
    /\ \A i \in 1..Len(returned) : returned[i] # Nothing
    /\ reply' = [status |-> 200, code |-> 200, message |-> "Success",
                 data |-> values]
    /\ spc' = "replied"
    /\ UNCHANGED <<fnVars, crawlVars, route, body, crawlCalls, returned, values>>

ServerNext ==
    \/ PostCrawl
    \/ CrawlReply
    \/ PostBatch
    \/ \E i \in 1..Len(returned) : BatchWorkerReturns(i)
    \/ BatchReply

SpecServer == ServerInit /\ [][ServerNext]_vars

\* ================================================= calls of the helpers
\* ------------------------------------------------ parseCookies, setCookies
CookieTokens == {"a", "=", ";", " "}

CookieParams ==
    [name : {<< >>, <<"a">>}, value : {<< >>, <<"b">>},
     domain : {Undefined, ".d.com"}, path : {Undefined}]

CookieInputs ==
    {AbsentCookies, OtherCookies}
    \cup {StringCookies(str) : str \in SeqUpTo(CookieTokens, MaxCookieLen)}
    \cup {ListCookies(l) : l \in SeqUpTo(CookieParams, MaxCookieList)}

CookiesInit ==
    /\ CrawlIdle
    /\ ServerIdle
    /\ fnPc = "call"
    /\ fnArgs \in [cookies : CookieInputs, self : {"zhihu", "unknown"}]
    /\ fnRet = << >>
    /\ browserCookies = << >>

\* const parsedCookies = parseCookies(cookies, this.getDomain())
ParseCookiesCall ==
    /\ fnPc = "call"
    /\ IF parseCookiesThrows(fnArgs.cookies)
       THEN fnPc' = "threw" /\ UNCHANGED fnRet
       ELSE /\ fnPc' = "returned"
            /\ fnRet' = parseCookies(fnArgs.cookies, getDomain(fnArgs.self))
    /\ UNCHANGED <<fnArgs, browserCookies, crawlVars, serverVars>>

\* if (parsedCookies.length > 0) await self.setCookies(context, parsedCookies)
SetCookiesCall ==
    /\ fnPc = "returned"
    /\ fnPc' = "added"
    /\ browserCookies' =
          IF Len(fnRet) > 0 THEN setCookies(fnArgs.self, fnRet) ELSE << >>
    /\ UNCHANGED <<fnArgs, fnRet, crawlVars, serverVars>>

CookiesNext == ParseCookiesCall \/ SetCookiesCall

SpecCookies == CookiesInit /\ [][CookiesNext]_vars

\* ------------------------------------------------------- detectPlatform
HostTokens ==
    {"zhihu", "xiaohongshu", "xhslink", "twitter", "x", "weixin", "mp", "fli",
     ".", ".com", ".qq", "ZHIHU"}

Dots == {".", ".com", ".qq"}

\* labels separated by dots: no dot first, no "." last, no "." before a dot
WellFormedHost(h) ==
    /\ Len(h) > 0
    /\ h[1] \notin Dots
    /\ h[Len(h)] # "."
    /\ \A i \in 1..(Len(h) - 1) : h[i] = "." => h[i + 1] \notin Dots

LongHosts ==
    {<<"mp", ".", "weixin", ".qq", ".com">>,
     <<"zhihu", ".com", ".", "x", ".com">>,
     <<"fli", ".", "xhslink", ".com">>}

Hosts == {h \in SeqUpTo(HostTokens, MaxHostLen) : WellFormedHost(h)} \cup LongHosts

PlatformInit ==
    /\ CrawlIdle
    /\ ServerIdle
    /\ fnPc = "call"
    /\ fnArgs \in [valid : BOOLEAN, host : Hosts]
    /\ fnRet = NoValue
    /\ browserCookies = << >>

\* const platform = detectPlatform(url)
DetectPlatformCall ==
    /\ fnPc = "call"
    /\ fnPc' = "returned"
    /\ fnRet' = detectPlatform(fnArgs)
    /\ UNCHANGED <<fnArgs, browserCookies, crawlVars, serverVars>>

PlatformNext == DetectPlatformCall

SpecPlatform == PlatformInit /\ [][PlatformNext]_vars

\* ------------------------------------------------------------ cleanText
TextPieces == {Chars("a", 1), Chars("a", 2), Space, LineBreak}

Texts == SeqUpTo(TextPieces, MaxTextLen)

TextInit ==
    /\ CrawlIdle
    /\ ServerIdle
    /\ fnPc = "call"
    /\ fnArgs \in [text : Texts]
    /\ fnRet = << >>
    /\ browserCookies = << >>

\* cleanText(text), and cleanText of what it returned
CleanTextCall ==
    /\ fnPc = "call"
    /\ fnPc' = "returned"
    /\ fnRet' = <<cleanText(fnArgs.text)>>
    /\ UNCHANGED <<fnArgs, browserCookies, crawlVars, serverVars>>

CleanTextAgain ==
    /\ fnPc = "returned"
    /\ fnPc' = "again"
    /\ fnRet' = Append(fnRet, cleanText(fnRet[1]))
    /\ UNCHANGED <<fnArgs, browserCookies, crawlVars, serverVars>>

TextNext == CleanTextCall \/ CleanTextAgain

SpecText == TextInit /\ [][TextNext]_vars

\* ------------------------------------------------- the media of a page
\* n elements with n different urls, and n elements with two urls in turn;
\* every third element of the first has no src
DistinctUrls(n) == [i \in 1..n |-> i]
RepeatedUrls(n) == [i \in 1..n |-> 1 + (i % 2)]
WithGaps(list) == [i \in 1..Len(list) |-> IF i % 3 = 0 THEN 0 ELSE list[i]]

PageImages ==
    UNION {{DistinctUrls(n), RepeatedUrls(n), WithGaps(DistinctUrls(n))} :
              n \in 0..MaxPageImages}
PageVideos ==
    UNION {{DistinctUrls(n), RepeatedUrls(n)} : n \in 0..MaxPageVideos}

MediaInit ==
    /\ CrawlIdle
    /\ ServerIdle
    /\ fnPc = "call"
    /\ fnArgs \in [self : Platforms, branch : ZhihuBranches,
                   imgs : PageImages, vids : PageVideos]
    /\ fnRet = Nothing
    /\ browserCookies = << >>

\* const images = ...; const videos = ...; return {..., images, videos}
ExtractMediaCall ==
    /\ fnPc = "call"
    /\ fnPc' = "returned"
    /\ fnRet' = [images |-> extractImages(fnArgs.self, fnArgs.branch, fnArgs.imgs),
                 videos |-> extractVideos(fnArgs.self, fnArgs.vids)]
    /\ UNCHANGED <<fnArgs, browserCookies, crawlVars, serverVars>>

MediaNext == ExtractMediaCall

SpecMedia == MediaInit /\ [][MediaNext]_vars

\* ------------------------------------------- the content of a generic page
\* what a selector may find: no element, an element without text, one with
\* exactly 100 characters, one with 101, one with more than 10000 and
\* whitespace in it; the characters of a text tell where it comes from
ElementTexts(selector) ==
    {<< >>,
     <<(<< >>)>>,
     <<(<<Chars(selector, MinContentLength)>>)>>,
     <<(<<Chars(selector, MinContentLength + 1)>>)>>,
     <<(<<Space, Chars(selector, MaxContentLength), LineBreak, LineBreak,
          Chars(selector, 5)>>)>>}

GenericPages ==
    [containers : ElementTexts(contentSelectors[1])
                  \X ElementTexts(contentSelectors[2])
                  \X ElementTexts(contentSelectors[3])
                  \X ElementTexts(contentSelectors[4])
                  \X ElementTexts(contentSelectors[5])
                  \X ElementTexts(contentSelectors[6])
                  \X ElementTexts(contentSelectors[7]),
     body : ElementTexts("body")]

GenericInit ==
    /\ CrawlIdle
    /\ ServerIdle
    /\ fnPc = "call"
    /\ fnArgs \in GenericPages
    /\ fnRet = << >>
    /\ browserCookies = << >>

\* GenericCrawler.extract: content
ExtractContentCall ==
    /\ fnPc = "call"
    /\ fnPc' = "returned"
    /\ fnRet' = extractContent(fnArgs.containers, fnArgs.body)
    /\ UNCHANGED <<fnArgs, browserCookies, crawlVars, serverVars>>

GenericNext == ExtractContentCall

SpecGeneric == GenericInit /\ [][GenericNext]_vars

\* =========================================================== the claims
\* a CrawlResult with success=false carries an error and no content
WellFormedFailure(r) ==
    ~r.success =>
        /\ r.error # Undefined
        /\ r.error # ""
        /\ r.title = ""
        /\ r.content = ""
        /\ r.images = << >>
        /\ r.videos = << >>

\* C1: whatever the order of the four completion callbacks, the caller gets
\* exactly one CrawlResult: none before the first call of resolve(), from
\* then on the result the first call was given (no later call changes it),
\* and once the session is over (the finally callback has run) a result has
\* been delivered; the worker awaiting crawl() receives that same result.
C1_ExactlyOneFirstResult ==
    /\ promiseState = "pending" => resolveCalls = << >>
    /\ promiseState = "resolved" =>
          /\ resolveCalls # << >>
          /\ promiseValue = firstResult
    /\ finallyDone => promiseState = "resolved"
    /\ (wpc = "done" /\ promiseState = "resolved") => workerResult = firstResult

\* two paths called resolve() (the session-failure path, then a handler that
\* was still running) and the caller has its result
C1_Witness ==
    /\ Len(resolveCalls) >= 2
    /\ resolveCalls[1] = "failed"
    /\ resolveCalls[2] = "success"
    /\ wpc = "done"

\* C2: the promise crawl() returns never rejects.
C2_NeverRejects == promiseState # "rejected"

\* C3: every CrawlResult with success=false that crawl() delivers or the
\* batch worker synthesizes has a non-empty error, empty title and content
\* and empty images and videos.
C3_FailureWellFormed ==
    /\ promiseState = "resolved" => WellFormedFailure(promiseValue)
    /\ wpc = "done" => WellFormedFailure(workerResult)

\* a strategy threw something that is no Error, the handler's catch built the
\* result and the worker returned it
C3_Witness ==
    /\ wpc = "done"
    /\ promiseState = "resolved"
    /\ resolveCalls[1] = "catch"
    /\ workerResult.error = "Unknown error"

\* C4: a crawl whose navigation timed out on every attempt eventually
\* resolves, with success=false and a non-empty error, no later than
\* (maxRequestRetries + 1) navigation timeouts after it began.
NavigationAlwaysTimedOut == navTimeouts = maxRequestRetries + 1

ResolvedFailedInTime ==
    /\ promiseState = "resolved"
    /\ ~promiseValue.success
    /\ promiseValue.error # Undefined
    /\ promiseValue.error # ""
    /\ promiseValue.crawledAt * 1000 <= (maxRequestRetries + 1) * TimeoutOf(options)

C4_NavigationTimeoutResolves == NavigationAlwaysTimedOut ~> ResolvedFailedInTime

\* both attempts timed out navigating and failedRequestHandler resolved
C4_Witness ==
    /\ NavigationAlwaysTimedOut
    /\ ResolvedFailedInTime
    /\ resolveCalls = <<"failed">>
    /\ promiseValue.error = NavigationTimeoutError.message

\* C5: no rejected promise is left without a handler.
C5_NoUnhandledRejection == ~unhandledRejection

\* C6: the response to an accepted batch of n urls (1 <= n <= 10) holds n
\* results, the i-th with the i-th url, whatever order the workers returned
\* in; a url whose worker raised gets a result with success=false and
\* platform 'unknown', and every other url gets what its crawl resolved with.
C6_BatchOrder ==
    (route = "/crawl/batch" /\ spc = "replied" /\ reply.status = 200) =>
        /\ Len(body.urls) \in 1..MaxBatchUrls
        /\ Len(reply.data) = Len(body.urls)
        /\ \A i \in 1..Len(body.urls) :
              /\ reply.data[i].url = body.urls[i]
              /\ returned[i].raised =>
                    /\ ~reply.data[i].success
                    /\ reply.data[i].platform = "unknown"
              /\ ~returned[i].raised =>
                    /\ reply.data[i] = returned[i].result
                    /\ reply.data[i].platform = "zhihu"
              /\ ~body.urls[i].valid => returned[i].raised

\* a full batch was answered: some workers raised and some did not
C6_Witness ==
    /\ route = "/crawl/batch"
    /\ spc = "replied"
    /\ reply.status = 200
    /\ Len(reply.data) = MaxBatchUrls
    /\ \E i, j \in 1..MaxBatchUrls :
          /\ i < j
          /\ returned[i].raised
          /\ body.urls[i].valid
          /\ ~returned[j].raised

\* the requests the validation is to stop
InvalidCrawlBody(b) ==
    IF b.kind \in {"absent", "empty"} THEN TRUE ELSE ~b.url.valid

InvalidBatchBody(b) ==
    \/ b.kind \in {"absent", "other"}
    \/ Len(b.urls) = 0
    \/ Len(b.urls) > MaxBatchUrls

FirstEquals(t) ==
    IF \E i \in 1..Len(t) : t[i] = "="
    THEN CHOOSE i \in 1..Len(t) : t[i] = "=" /\ \A j \in 1..(i - 1) : t[j] # "="
    ELSE 0

\* the entry a pair stands for: the text before its first "=" and
\* everything after it, both trimmed
EntryOf(pair, domain) ==
    LET t == Trim(pair)
        k == FirstEquals(t)
    IN  [name |-> IF k = 0 THEN t ELSE Trim(SubSeq(t, 1, k - 1)),
         value |-> IF k = 0 THEN << >> ELSE Trim(SubSeq(t, k + 1, Len(t))),
         domain |-> domain, path |-> Undefined]

ExampleCookies ==
    <<" ", "foo", " ", "=", " ", "bar", " ", ";", " ", "baz", "=", "qux", "=",
      "1", " ">>

\* C8: for a cookie string, parseCookies returns, in the order of the pairs
\* between the ";", the entry of every pair (name: the trimmed text before
\* the first "=", value: the trimmed rest, domain: the fallback) whose name
\* and value are not empty; ' foo = bar ; baz=qux=1 ' with '.example.com'
\* gives [{foo, bar}, {baz, qux=1}].
C8_StringForm ==
    /\ (fnPc \in {"returned", "added"} /\ fnArgs.cookies.kind = "string") =>
          LET pairs == Split(fnArgs.cookies.str, ";")
              entries == [i \in 1..Len(pairs) |->
                             EntryOf(pairs[i], getDomain(fnArgs.self))]
          IN  fnRet = SelectSeq(entries,
                                LAMBDA c : c.name # << >> /\ c.value # << >>)
    /\ parseCookies(StringCookies(ExampleCookies), ".example.com") =
          <<[name |-> <<"foo">>, value |-> <<"bar">>,
             domain |-> ".example.com", path |-> Undefined],
            [name |-> <<"baz">>, value |-> <<"qux", "=", "1">>,
             domain |-> ".example.com", path |-> Undefined]>>

\* 'a=a=a' was parsed: the value keeps its "="
C8_Witness ==
    /\ fnPc = "returned"
    /\ fnArgs.cookies = StringCookies(<<"a", "=", "a", "=", "a">>)
    /\ Len(fnRet) = 1
    /\ fnRet[1].value = <<"a", "=", "a">>

\* C9: every entry parseCookies returns, and so every cookie handed to the
\* browser context, has a non-empty name and a non-empty value.
C9_NoEmptyNameOrValue ==
    /\ fnPc \in {"returned", "added"} =>
          \A i \in 1..Len(fnRet) :
              fnRet[i].name # << >> /\ fnRet[i].value # << >>
    /\ \A i \in 1..Len(browserCookies) :
          browserCookies[i].name # << >> /\ browserCookies[i].value # << >>

\* the domains of the supported platforms, in the order of the signatures
PlatformDomains ==
    <<[tag |-> "zhihu", domain |-> <<"zhihu", ".com">>],
      [tag |-> "xiaohongshu", domain |-> <<"xiaohongshu", ".com">>],
      [tag |-> "xiaohongshu", domain |-> <<"xhslink", ".com">>],
      [tag |-> "twitter", domain |-> <<"twitter", ".com">>],
      [tag |-> "twitter", domain |-> <<"x", ".com">>],
      [tag |-> "wechat", domain |-> <<"weixin", ".qq", ".com">>]>>

\* the host is the domain or one of its subdomains
HostOf(h, domain) ==
    \/ h = domain
    \/ /\ Len(h) > Len(domain)
       /\ SubSeq(h, Len(h) - Len(domain) + 1, Len(h)) = domain
       /\ h[Len(h) - Len(domain)] = "."

\* C10: a host of a supported platform, whatever its case, gives a
\* platform's tag: its own, unless a signature earlier in the fixed order
\* matches too; and a host of none of the supported platforms gives 'unknown'.
C10_HostDecidesPlatform ==
    (fnPc = "returned" /\ fnArgs.valid) =>
        LET h == toLowerCase(fnArgs.host)
            hits == {i \in 1..Len(PlatformDomains) :
                        HostOf(h, PlatformDomains[i].domain)}
            first == CHOOSE i \in hits : \A j \in hits : i <= j
        IN  IF hits = {}
            THEN fnRet = "unknown"
            ELSE /\ fnRet # "unknown"
                 /\ (\A j \in 1..(first - 1) :
                        ~Includes(h, PlatformDomains[j].domain))
                       => fnRet = PlatformDomains[first].tag

\* a text with no two whitespace characters in a row, no line break and no
\* whitespace at either end
Normalized(text) ==
    /\ \A i \in 1..(Len(text) - 1) :
          ~(IsWhiteSpace(text[i]) /\ IsWhiteSpace(text[i + 1]))
    /\ \A i \in 1..Len(text) : text[i] # LineBreak
    /\ text # << >> => ~IsWhiteSpace(text[1]) /\ ~IsWhiteSpace(text[Len(text)])

\* C11: cleanText(cleanText(s)) = cleanText(s), and cleanText(s) has no run of
\* two or more whitespace characters, no line break and no whitespace at
\* either end.
C11_CleanTextIdempotent ==
    /\ (fnPc \in {"returned", "again"} /\ Len(fnRet) >= 1) => Normalized(fnRet[1])
    /\ fnPc = "again" => fnRet[2] = fnRet[1]

\* a text with a blank line and spaces around it was cleaned twice
C11_Witness ==
    /\ fnPc = "again"
    /\ fnArgs.text = <<LineBreak, Space, LineBreak, Chars("a", 2)>>
    /\ fnRet = <<(<<Chars("a", 2)>>), (<<Chars("a", 2)>>)>>

NoDuplicates(list) ==
    \A i, j \in 1..Len(list) : list[i] = list[j] => i = j

\* C12: whatever the strategy and the page, the images returned are at most
\* 20 and the videos at most 10, and no url is in a list twice.
C12_MediaCaps ==
    fnPc = "returned" =>
        /\ Len(fnRet.images) <= 20
        /\ Len(fnRet.videos) <= 10
        /\ NoDuplicates(fnRet.images)
        /\ NoDuplicates(fnRet.videos)

\* C13: every completion path looks at the flag `resolved` before it acts,
\* so resolve() is called once in a crawl: a path that arrives when the flag
\* is true builds no result and does not call resolve() again.
C13_ResolvedFlagConsulted == Len(resolveCalls) <= 1

IsPrefix(s, t) == Len(s) <= Len(t) /\ s = SubSeq(t, 1, Len(s))

\* the steps of an attempt, in the order the claim gives them
ConfigurationSteps ==
    (IF Len(parsedCookies) > 0 THEN <<"cookies">> ELSE << >>)
    \o <<"viewport", "headers", "antiDetection">>

StepsInOrder ==
    ConfigurationSteps \o <<"navigate", "domReady", "settle", "extract">>

\* C14: what an attempt has done is at every moment a beginning of: cookie
\* injection (only with a non-empty cookie list), viewport, headers,
\* anti-detection, navigation, DOM ready, settle wait, extract; the
\* navigation begins with the configuration finished, and extract begins
\* with the settle wait over.
C14_StepsInOrder ==
    /\ runPc \in {"hook", "nav", "handler"} => IsPrefix(hookLog, StepsInOrder)
    /\ runPc = "nav" => hookLog = ConfigurationSteps
    /\ \A a \in Attempts :
          /\ IsPrefix(handlers[a].log, StepsInOrder)
          /\ handlers[a].pc = "extract" =>
                /\ handlers[a].log =
                      ConfigurationSteps \o <<"navigate", "domReady", "settle">>
                /\ now >= handlers[a].settleStart + SettleSecs

\* an attempt with cookies went through all its steps and delivered
C14_Witness ==
    /\ Len(parsedCookies) > 0
    /\ handlers[1].pc = "done"
    /\ handlers[1].log = StepsInOrder
    /\ Len(StepsInOrder) = 8
    /\ resolveCalls = <<"success">>

\* C15: a handler whose attempt was given up because its timeout elapsed
\* never delivers the result of the crawl afterwards (and so never a result
\* with success=true): the result then comes from the session-failure path.
C15_TimedOutHandlerSilent ==
    \A a \in Attempts : ~(handlers[a].timedOut /\ handlers[a].delivered)

\* the cycle is attempted at most twice
AtMostTwoAttempts == attempt <= 2

\* an attempt that failed and was retried has delivered no result
RetriedAttemptSilent ==
    \A a \in Attempts : a < attempt => ~handlers[a].delivered

\* failedRequestHandler resolves only when the last attempt has failed
FailureAfterLastAttempt ==
    (\E i \in 1..Len(resolveCalls) : resolveCalls[i] = "failed") =>
        /\ attempt = maxRequestRetries + 1
        /\ runPc = "finished"

\* a handler that caught an error before any timeout has resolved, and its
\* request is handled: no attempt follows
CaughtErrorNotRetried ==
    \A a \in Attempts :
        (handlers[a].pc = "done" /\ ~handlers[a].timedOut) =>
            /\ resolved
            /\ a = attempt
            /\ runPc = "finished"

\* C16: the cycle is attempted at most twice; a first attempt that failed
\* and is retried delivers no result of its own; the result of
\* failedRequestHandler comes only after the last attempt failed; an error
\* caught in requestHandler is resolved at once and not retried.
C16_RetryPolicy ==
    /\ AtMostTwoAttempts
    /\ RetriedAttemptSilent
    /\ FailureAfterLastAttempt
    /\ CaughtErrorNotRetried

\* C17: when the session has ended with no other path having resolved,
\* crawl() resolves with success=false and the error 'Crawler finished
\* without result'; that error is delivered in no other case; and when
\* failedRequestHandler resolved first, the error delivered is the message of
\* the failure.
C17_SentinelOnlyWhenSilent ==
    /\ finallyDone => promiseState = "resolved"
    /\ promiseState = "resolved" =>
          /\ resolveCalls[1] = "finally" =>
                /\ ~promiseValue.success
                /\ promiseValue.error = "Crawler finished without result"
          /\ promiseValue.error = "Crawler finished without result" =>
                resolveCalls[1] = "finally"
          /\ resolveCalls[1] = "failed" =>
                /\ ~promiseValue.success
                /\ promiseValue.error = lastError.message
    /\ (wpc = "done" /\ promiseState = "resolved") => workerResult = promiseValue

\* crawler.run rejected before any handler ran, the finally callback
\* resolved and the caller has the sentinel result
C17_Witness ==
    /\ runPromise = "rejected"
    /\ resolveCalls = <<"finally">>
    /\ wpc = "done"
    /\ workerResult.error = "Crawler finished without result"

\* the containers of a page whose text is longer than 100 characters
LongContainers(containers) ==
    {i \in 1..Len(containers) :
        containers[i] # << >> /\ Length(containers[i][1]) > 100}

\* the text the claim chooses: that of the first such container in the
\* priority order, else that of the page body
ChosenText(containers, pageBody) ==
    LET long == LongContainers(containers) IN
    IF long # {}
    THEN containers[CHOOSE i \in long : \A j \in long : i <= j][1]
    ELSE IF pageBody = << >> THEN << >> ELSE pageBody[1]

\* C18: the generic strategy returns the normalized text of the first
\* container, in the priority order, whose text is longer than 100
\* characters, or of the page body when no container has such a text, cut to
\* at most 10000 characters.
C18_GenericContent ==
    fnPc = "returned" =>
        /\ Length(fnRet) <= 10000
        /\ fnRet = SliceText(cleanText(ChosenText(fnArgs.containers, fnArgs.body)),
                             10000)
====
